---- MODULE Spec2Model ----
(***************************************************************************)
(* Model of AEMETApi (src/aemetapi.py): one call of get_antarctica_data,   *)
(* from argument validation over the two upstream requests to the          *)
(* aggregation loop of aggregate_data, one loop iteration per step.        *)
(*                                                                         *)
(* Python values are represented as follows.                               *)
(*   str        a TLA+ string, except the fhora timestamps, which are      *)
(*              sequences of code points so that they can be compared      *)
(*              (sorted) and parsed (strptime) character by character;     *)
(*   None       the value None defined below;                              *)
(*   int/float  a dyadic rational [num, exp] standing for num / 2^exp,     *)
(*              kept normalised (num odd or exp = 0); every value the      *)
(*              loop computes from integer readings is such a number and   *)
(*              is exact in a Python float;                                *)
(*   datetime   a record of the six calendar fields; an aware datetime is  *)
(*              the instant together with its tzinfo;                      *)
(*   dict       a record; list: a sequence.                                *)
(***************************************************************************)
EXTENDS Integers, Sequences, FiniteSets, TLC

\* longest dataset the upstream dataset fetch delivers
MaxLen == 3

----------------------------------------------------------------------------
(* Static configuration set by __init__ *)

None == "None (NoneType)"

stations == {"89064", "89070"}

time_aggregation_options == {None, "Hourly", "Daily", "Monthly"}

local_timezone == "Europe/Madrid"

\* arguments a caller passes: the valid ones and one invalid of each kind
GranularityArgs == time_aggregation_options \cup {"Weekly"}

StationArgs == stations \cup {"99999"}

----------------------------------------------------------------------------
(* Numbers *)

RECURSIVE Norm(_)
Norm(x) ==
    IF x.exp > 0 /\ x.num % 2 = 0
    THEN Norm([num |-> x.num \div 2, exp |-> x.exp - 1])
    ELSE x

Num(n) == [num |-> n, exp |-> 0]

Max(a, b) == IF a >= b THEN a ELSE b

\* (a + b) / 2 in Python arithmetic
HalfSum(a, b) ==
    LET m == Max(a.exp, b.exp)
    IN  Norm([num |-> a.num * 2^(m - a.exp) + b.num * 2^(m - b.exp),
              exp |-> m + 1])

\* a + b
Add(a, b) ==
    LET m == Max(a.exp, b.exp)
    IN  Norm([num |-> a.num * 2^(m - a.exp) + b.num * 2^(m - b.exp), exp |-> m])

----------------------------------------------------------------------------
(* Timestamps: strings of the form YYYY-MM-DDTHH:MM:SS *)

Digit(c) == c - 48

Chr(d) == d + 48

Two(n) == <<Chr(n \div 10), Chr(n % 10)>>

Fhora(y, mo, d, h, mi, s) ==
    <<Chr(y \div 1000), Chr((y \div 100) % 10), Chr((y \div 10) % 10), Chr(y % 10)>>
    \o <<45>> \o Two(mo) \o <<45>> \o Two(d) \o <<84>> \o Two(h)
    \o <<58>> \o Two(mi) \o <<58>> \o Two(s)

\* Python's < on two str values: code point by code point, a proper prefix first
RECURSIVE StrLess(_, _)
StrLess(a, b) ==
    IF b = <<>> THEN FALSE
    ELSE IF a = <<>> THEN TRUE
    ELSE IF Head(a) # Head(b) THEN Head(a) < Head(b)
    ELSE StrLess(Tail(a), Tail(b))

Field2(s, i) == Digit(s[i]) * 10 + Digit(s[i + 1])

\* datetime.strptime(s, "%Y-%m-%dT%H:%M:%S")
strptime(s) ==
    [year   |-> Field2(s, 1) * 100 + Field2(s, 3),
     month  |-> Field2(s, 6),
     day    |-> Field2(s, 9),
     hour   |-> Field2(s, 12),
     minute |-> Field2(s, 15),
     second |-> Field2(s, 18)]

\* time.replace(tzinfo=pytz.utc).astimezone(tz)
astimezone(t, tz) == [instant |-> t, tzinfo |-> tz]

\* datetime <= datetime
DtKey(t) == <<t.year, t.month, t.day, t.hour, t.minute, t.second>>

RECURSIVE TupleLeq(_, _)
TupleLeq(a, b) ==
    IF a = <<>> THEN TRUE
    ELSE IF Head(a) # Head(b) THEN Head(a) < Head(b)
    ELSE TupleLeq(Tail(a), Tail(b))

DtLeq(t, u) == TupleLeq(DtKey(t), DtKey(u))

----------------------------------------------------------------------------
(* Raw observations delivered by the dataset fetch *)

JuanCarlos == "Juan Carlos I"

GabrielDeCastilla == "Gabriel de Castilla"

Obs(f, n, t, p, v) ==
    [fhora |-> f, nombre |-> n, temp |-> Num(t), pres |-> Num(p), vel |-> Num(v)]

Observations ==
    { Obs(Fhora(2022, 7, 1, 10, 0, 0),  JuanCarlos, 10, 1000, 4),
      Obs(Fhora(2022, 7, 1, 10, 30, 0), JuanCarlos, 20, 990, 6),
      Obs(Fhora(2022, 7, 2, 10, 0, 0),  JuanCarlos, 30, 1010, 8),
      Obs(Fhora(2022, 8, 1, 11, 0, 0),  JuanCarlos, 20, 1000, 5),
      Obs(Fhora(2023, 7, 3, 12, 0, 0),  JuanCarlos, 10, 995, 7),
      Obs(Fhora(2022, 7, 2, 10, 0, 0),  JuanCarlos, 11, 1001, 9),
      Obs(Fhora(2022, 7, 1, 10, 0, 0),  GabrielDeCastilla, 0 - 5, 980, 12),
      Obs(Fhora(2022, 7, 1, 10, 30, 0), GabrielDeCastilla, 15, 985, 3) }

Datasets == UNION { [1..n -> Observations] : n \in 0..MaxLen }

\* answers of the metadata endpoint
Estados == {200, 401, 404, 429}

Descripciones == {"exito", "No hay datos que satisfagan esos criterios"}

----------------------------------------------------------------------------
(* sort_data *)

\* key=lambda x: x['fhora'] if 'fhora' in x else x['utc_datetime']
SortKey(x) == x.fhora

\* sorted() is stable: an element goes behind every element whose key is not greater
RECURSIVE InsertSorted(_, _)
InsertSorted(x, s) ==
    IF s = <<>> THEN <<x>>
    ELSE IF StrLess(SortKey(x), SortKey(Head(s))) THEN <<x>> \o s
    ELSE <<Head(s)>> \o InsertSorted(x, Tail(s))

RECURSIVE SortedPrefix(_, _)
SortedPrefix(d, n) ==
    IF n = 0 THEN <<>> ELSE InsertSorted(d[n], SortedPrefix(d, n - 1))

\* faulty variant: the sort of line 87 left out
sort_data_Unsorted(d) == d

sort_data(d) == SortedPrefix(d, Len(d))

----------------------------------------------------------------------------
(* aggregate_data: the pieces of one loop iteration *)

Truthy(x) == x # None /\ x # ""

\* faulty variant: the granularity is not consulted, the hours are compared
aggregate_AnyGranularity(time_aggregation, last_time, time) ==
    last_time.hour = time.hour

\* faulty variant: Daily compares the month
aggregate_DailyByMonth(time_aggregation, last_time, time) ==
    \/ time_aggregation = "Hourly" /\ last_time.hour = time.hour
    \/ time_aggregation = "Daily" /\ last_time.month = time.month
    \/ time_aggregation = "Monthly" /\ last_time.month = time.month

\* line 95
aggregate(time_aggregation, last_time, time) ==
    \/ time_aggregation = "Hourly" /\ last_time.hour = time.hour
    \/ time_aggregation = "Daily" /\ last_time.day = time.day
    \/ time_aggregation = "Monthly" /\ last_time.month = time.month

\* faulty variant: without a granularity the Hourly predicate is applied
ShouldMerge_DefaultHourly(out, time_aggregation, time) ==
    /\ Len(out) > 0
    /\ aggregate(IF Truthy(time_aggregation) THEN time_aggregation ELSE "Hourly",
                 out[Len(out)].utc_datetime, time)

\* lines 93-96
ShouldMerge(out, time_aggregation, time) ==
    /\ Len(out) > 0
    /\ Truthy(time_aggregation)
    /\ aggregate(time_aggregation, out[Len(out)].utc_datetime, time)

\* faulty variant: a + b / 2 in place of (a + b) / 2
MergeItem_Precedence(rec, item) ==
    [rec EXCEPT !.temperature = Add(@, HalfSum(Num(0), item.temp)),
                !.pressure = Add(@, HalfSum(Num(0), item.pres)),
                !.speed = Add(@, HalfSum(Num(0), item.vel))]

\* faulty variant: the merge also moves the record to the time of the merged item
MergeItem_Retime(rec, item) ==
    [rec EXCEPT !.temperature = HalfSum(@, item.temp),
                !.pressure = HalfSum(@, item.pres),
                !.speed = HalfSum(@, item.vel),
                !.utc_datetime = strptime(item.fhora)]

\* lines 97-99
MergeItem(rec, item) ==
    [rec EXCEPT !.temperature = HalfSum(@, item.temp),
                !.pressure = HalfSum(@, item.pres),
                !.speed = HalfSum(@, item.vel)]

\* lines 102-109
NewItem(item, time) ==
    [station      |-> item.nombre,
     utc_datetime |-> time,
     datetime     |-> astimezone(time, local_timezone),
     temperature  |-> item.temp,
     pressure     |-> item.pres,
     speed        |-> item.vel]

----------------------------------------------------------------------------
(* Return values of get_antarctica_data *)

StrStatus(n) == [type |-> "str", value |-> n]

IntStatus(n) == [type |-> "int", value |-> n]

Pending == [pending |-> TRUE]

InvalidAggregationResult ==
    [status      |-> StrStatus(400),
     description |-> "Validation failure. Time aggregation not valid must be one of: None, Hourly, Daily, Monthly",
     data        |-> <<>>]

InvalidStationResult ==
    [status      |-> StrStatus(400),
     description |-> "Validation failure. Station id must be one of: {'89064': 'Juan Carlos I Meteorological Station', '89070': 'Gabriel de Castilla Meteorological Station}'}",
     dataset     |-> <<>>]

OkResult(ds) ==
    [status |-> IntStatus(200), description |-> "OK", dataset |-> ds]

UpstreamResult(resp) ==
    [status |-> IntStatus(resp.estado), description |-> resp.descripcion, dataset |-> <<>>]

\* faulty variant: the estado of the answer is not looked at
HasData_IgnoresEstado(resp) == resp.has_datos

HasData(resp) == resp.estado = 200 /\ resp.has_datos

----------------------------------------------------------------------------
VARIABLES
    pc,               \* position of the call
    time_aggregation, \* argument
    station_id,       \* argument
    requests,         \* the network requests issued so far, in order
    response,         \* JSON answer of the metadata endpoint
    payload,          \* the dataset as fetched (line 80)
    data,             \* the sorted dataset (line 87)
    idx,              \* position of the for loop in data
    aggregated_data,  \* output list
    aggregated_item,  \* index in aggregated_data of the dict the name refers to, 0 for the fresh {}
    merged,           \* history: per output record, the positions in data folded into it
    result            \* returned dict

vars == <<pc, time_aggregation, station_id, requests, response, payload, data, idx,
          aggregated_data, aggregated_item, merged, result>>

NoResponse == [estado |-> 0, descripcion |-> "", has_datos |-> FALSE]

Init ==
    /\ pc = "idle"
    /\ time_aggregation = None
    /\ station_id = ""
    /\ requests = <<>>
    /\ response = NoResponse
    /\ payload = <<>>
    /\ data = <<>>
    /\ idx = 0
    /\ aggregated_data = <<>>
    /\ aggregated_item = 0
    /\ merged = <<>>
    /\ result = Pending

\* lines 32-42
InvalidAggregation(ta, sid) ==
    /\ pc = "idle"
    /\ ta \notin time_aggregation_options
    /\ time_aggregation' = ta
    /\ station_id' = sid
    /\ result' = InvalidAggregationResult
    /\ pc' = "returned"
    /\ UNCHANGED <<requests, response, payload, data, idx, aggregated_data, aggregated_item, merged>>

\* faulty variant: the station is validated after the metadata request went out
InvalidStation_RequestFirst(ta, sid) ==
    /\ pc = "idle"
    /\ ta \in time_aggregation_options
    /\ sid \notin stations
    /\ time_aggregation' = ta
    /\ station_id' = sid
    /\ requests' = Append(requests, "metadata")
    /\ result' = InvalidStationResult
    /\ pc' = "returned"
    /\ UNCHANGED <<response, payload, data, idx, aggregated_data, aggregated_item, merged>>

\* lines 44-51
InvalidStation(ta, sid) ==
    /\ pc = "idle"
    /\ ta \in time_aggregation_options
    /\ sid \notin stations
    /\ time_aggregation' = ta
    /\ station_id' = sid
    /\ result' = InvalidStationResult
    /\ pc' = "returned"
    /\ UNCHANGED <<requests, response, payload, data, idx, aggregated_data, aggregated_item, merged>>

\* lines 53-54, 26-27: the metadata request goes out
RequestMetadata(ta, sid) ==
    /\ pc = "idle"
    /\ ta \in time_aggregation_options
    /\ sid \in stations
    /\ time_aggregation' = ta
    /\ station_id' = sid
    /\ requests' = Append(requests, "metadata")
    /\ pc' = "metadata"
    /\ UNCHANGED <<response, payload, data, idx, aggregated_data, aggregated_item, merged, result>>

\* lines 28, 57, 64-68: the answer carries no data
MetadataFailure(resp) ==
    /\ pc = "metadata"
    /\ ~HasData(resp)
    /\ response' = resp
    /\ result' = UpstreamResult(resp)
    /\ pc' = "returned"
    /\ UNCHANGED <<time_aggregation, station_id, requests, payload, data, idx,
                   aggregated_data, aggregated_item, merged>>

\* lines 28, 57, 61, 80: the answer carries data, the dataset fetch goes out
MetadataSuccess(resp) ==
    /\ pc = "metadata"
    /\ HasData(resp)
    /\ response' = resp
    /\ requests' = Append(requests, "dataset")
    /\ pc' = "dataset"
    /\ UNCHANGED <<time_aggregation, station_id, payload, data, idx,
                   aggregated_data, aggregated_item, merged, result>>

\* line 80: the payload is not JSON, json.loads raises out of the call
DatasetMalformed ==
    /\ pc = "dataset"
    /\ pc' = "raised"
    /\ UNCHANGED <<time_aggregation, station_id, requests, response, payload, data, idx,
                   aggregated_data, aggregated_item, merged, result>>

\* lines 80-84, 58-62: an empty dataset
DatasetEmpty ==
    /\ pc = "dataset"
    /\ result' = OkResult(<<>>)
    /\ pc' = "returned"
    /\ UNCHANGED <<time_aggregation, station_id, requests, response, payload, data, idx,
                   aggregated_data, aggregated_item, merged>>

\* lines 80-89: a non-empty dataset is sorted and the loop starts
DatasetLoaded(d) ==
    /\ pc = "dataset"
    /\ Len(d) > 0
    /\ payload' = d
    /\ data' = sort_data(d)
    /\ idx' = 1
    /\ aggregated_data' = <<>>
    /\ aggregated_item' = 0
    /\ merged' = <<>>
    /\ pc' = "loop"
    /\ UNCHANGED <<time_aggregation, station_id, requests, response, result>>

\* lines 90-100: the item is folded into the dict aggregated_item refers to
MergeStep ==
    /\ pc = "loop"
    /\ idx <= Len(data)
    /\ ShouldMerge(aggregated_data, time_aggregation, strptime(data[idx].fhora))
    /\ aggregated_data' =
          [aggregated_data EXCEPT ![aggregated_item] = MergeItem(@, data[idx])]
    /\ merged' = [merged EXCEPT ![aggregated_item] = Append(@, idx)]
    /\ idx' = idx + 1
    /\ UNCHANGED <<pc, time_aggregation, station_id, requests, response, payload, data,
                   aggregated_item, result>>

\* lines 90-95, 102-110: a new dict is appended
AppendStep ==
    /\ pc = "loop"
    /\ idx <= Len(data)
    /\ ~ShouldMerge(aggregated_data, time_aggregation, strptime(data[idx].fhora))
    /\ aggregated_data' =
          Append(aggregated_data, NewItem(data[idx], strptime(data[idx].fhora)))
    /\ aggregated_item' = Len(aggregated_data) + 1
    /\ merged' = Append(merged, <<idx>>)
    /\ idx' = idx + 1
    /\ UNCHANGED <<pc, time_aggregation, station_id, requests, response, payload, data,
                   result>>

\* lines 112, 58-62
ReturnDataset ==
    /\ pc = "loop"
    /\ idx > Len(data)
    /\ result' = OkResult(aggregated_data)
    /\ pc' = "returned"
    /\ UNCHANGED <<time_aggregation, station_id, requests, response, payload, data, idx,
                   aggregated_data, aggregated_item, merged>>

Next ==
    \/ \E ta \in GranularityArgs, sid \in StationArgs : InvalidAggregation(ta, sid)
    \/ \E ta \in GranularityArgs, sid \in StationArgs : InvalidStation(ta, sid)
    \/ \E ta \in GranularityArgs, sid \in StationArgs : RequestMetadata(ta, sid)
    \/ \E e \in Estados, ds \in Descripciones, h \in BOOLEAN :
          MetadataFailure([estado |-> e, descripcion |-> ds, has_datos |-> h])
    \/ \E e \in Estados, ds \in Descripciones, h \in BOOLEAN :
          MetadataSuccess([estado |-> e, descripcion |-> ds, has_datos |-> h])
    \/ DatasetMalformed
    \/ DatasetEmpty
    \/ \E d \in Datasets : DatasetLoaded(d)
    \/ MergeStep
    \/ AppendStep
    \/ ReturnDataset

Spec == Init /\ [][Next]_vars

----------------------------------------------------------------------------
(* Properties *)

Granular == time_aggregation \in {"Hourly", "Daily", "Monthly"}

\* the calendar component the granularity g compares
Component(g, t) ==
    IF g = "Hourly" THEN t.hour ELSE IF g = "Daily" THEN t.day ELSE t.month

ParsedTime(i) == strptime(data[i].fhora)

RECURSIVE Flatten(_)
Flatten(ss) == IF ss = <<>> THEN <<>> ELSE Head(ss) \o Flatten(Tail(ss))

\* a1 = v1, a(i+1) = (a(i) + v(i+1)) / 2
RECURSIVE LeftFold(_)
LeftFold(vs) ==
    IF Len(vs) = 1 THEN vs[1]
    ELSE HalfSum(LeftFold(SubSeq(vs, 1, Len(vs) - 1)), vs[Len(vs)])

Temps(k) == [j \in 1..Len(merged[k]) |-> data[merged[k][j]].temp]

Press(k) == [j \in 1..Len(merged[k]) |-> data[merged[k][j]].pres]

Vels(k) == [j \in 1..Len(merged[k]) |-> data[merged[k][j]].vel]

\* the call ended without reaching the aggregation
Failed == requests # <<"metadata", "dataset">>

\* C1: every returned value has exactly the fields status, description and
\* dataset, and dataset is the empty sequence on every failure outcome.
C1_UniformEnvelope ==
    pc = "returned" =>
        /\ DOMAIN result = {"status", "description", "dataset"}
        /\ Failed => result.dataset = <<>>

InvalidArgs == time_aggregation \notin time_aggregation_options \/ station_id \notin stations

\* C2: a call with an invalid granularity or an invalid station id returns
\* status 400 and has issued no network request, neither the metadata request
\* nor the dataset fetch.
C2_ValidationBeforeIO ==
    (pc # "idle" /\ InvalidArgs) =>
        /\ pc = "returned"
        /\ result.status.value = 400
        /\ requests = <<>>

C2_Witness ==
    /\ pc = "returned"
    /\ time_aggregation \in time_aggregation_options
    /\ station_id = "99999"

\* C3: when the metadata endpoint answers with an estado other than 200, the
\* call returns the upstream status and description unchanged with an empty
\* dataset and performs neither the dataset fetch nor the aggregation; the
\* dataset fetch is only ever issued after an answer with estado 200.
C3_UpstreamPassThrough ==
    /\ (response # NoResponse /\ response.estado # 200) =>
          /\ pc = "returned"
          /\ DOMAIN result = {"status", "description", "dataset"}
          /\ result.status.value = response.estado
          /\ result.description = response.descripcion
          /\ result.dataset = <<>>
          /\ requests = <<"metadata">>
          /\ idx = 0 /\ aggregated_data = <<>>
    /\ (\E i \in DOMAIN requests : requests[i] = "dataset") =>
          /\ response.estado = 200
          /\ requests = <<"metadata", "dataset">>

C3_Witness ==
    /\ pc = "returned"
    /\ response.estado = 404
    /\ response.has_datos
    /\ result.status.value = 404

\* C4: the output of aggregate_data is non-decreasing by utc_datetime, for
\* every granularity, after every loop iteration and in the returned dataset.
C4_OutputChronological ==
    /\ \A i, j \in DOMAIN aggregated_data :
          i < j => DtLeq(aggregated_data[i].utc_datetime, aggregated_data[j].utc_datetime)
    /\ (pc = "returned" /\ ~InvalidArgs) =>
          \A i, j \in DOMAIN result.dataset :
              i < j => DtLeq(result.dataset[i].utc_datetime, result.dataset[j].utc_datetime)

C4_Witness ==
    /\ pc = "returned"
    /\ ~Failed
    /\ Len(result.dataset) >= 2
    /\ payload # data
    /\ result.dataset[1].utc_datetime # result.dataset[2].utc_datetime

\* C5: with Hourly, Daily or Monthly every observation merged into an output
\* record has the same hour, day-of-month or month as the observation that
\* opened the record, and the record's utc_datetime is the parsed timestamp
\* of that opening observation.
C5_BucketSharesComponent ==
    Granular =>
        \A k \in DOMAIN aggregated_data :
            /\ aggregated_data[k].utc_datetime = ParsedTime(merged[k][1])
            /\ \A j \in DOMAIN merged[k] :
                  Component(time_aggregation, ParsedTime(merged[k][j]))
                      = Component(time_aggregation, ParsedTime(merged[k][1]))

C5_Witness ==
    /\ Granular
    /\ \E k \in DOMAIN aggregated_data :
          /\ Len(merged[k]) >= 2
          /\ ParsedTime(merged[k][2]) # ParsedTime(merged[k][1])

\* C6: every observation merged into an output record has the same station
\* name as the record's station field, also for inputs that mix stations.
C6_OneStationPerRecord ==
    \A k \in DOMAIN aggregated_data :
        \A j \in DOMAIN merged[k] :
            data[merged[k][j]].nombre = aggregated_data[k].station

\* C7: with granularity none the output has the length of the input and its
\* i-th record carries station, parsed timestamp, temperature, pressure and
\* speed of the i-th observation of the sorted input.
C7_NoneIsIdentity ==
    (pc = "returned" /\ time_aggregation = None /\ ~Failed) =>
        /\ Len(result.dataset) = Len(payload)
        /\ Len(data) = Len(payload)
        /\ \A i \in DOMAIN result.dataset :
              /\ result.dataset[i].station = data[i].nombre
              /\ result.dataset[i].utc_datetime = strptime(data[i].fhora)
              /\ result.dataset[i].temperature = data[i].temp
              /\ result.dataset[i].pressure = data[i].pres
              /\ result.dataset[i].speed = data[i].vel

C7_Witness ==
    /\ pc = "returned"
    /\ time_aggregation = None
    /\ Len(result.dataset) = 2
    /\ result.dataset[1].utc_datetime.hour = result.dataset[2].utc_datetime.hour

\* C8: temperature, pressure and speed of a bucket that received the values
\* v1 .. vk are the left fold a1 = v1, a(i+1) = (a(i) + v(i+1)) / 2 of the
\* field's values; 10, 20 give 15 and 10, 20, 30 give 22.5.
C8_PairwiseRunningAverage ==
    \A k \in DOMAIN aggregated_data :
        /\ aggregated_data[k].temperature = LeftFold(Temps(k))
        /\ aggregated_data[k].pressure = LeftFold(Press(k))
        /\ aggregated_data[k].speed = LeftFold(Vels(k))
        /\ Temps(k) = <<Num(10), Num(20)>> =>
              aggregated_data[k].temperature = [num |-> 15, exp |-> 0]
        /\ Temps(k) = <<Num(10), Num(20), Num(30)>> =>
              aggregated_data[k].temperature = [num |-> 45, exp |-> 1]

C8_Witness ==
    /\ pc = "returned"
    /\ ~Failed
    /\ Len(result.dataset) = 1
    /\ Len(merged) = 1
    /\ Temps(1) = <<Num(10), Num(20), Num(30)>>
    /\ result.dataset[1].temperature = [num |-> 45, exp |-> 1]

\* C9: a merge step changes only temperature, pressure and speed of the last
\* output record; a non-merge step only appends one record.
C9_MergeFrame ==
    [][ (pc = "loop" /\ idx' = idx + 1) =>
          LET n == Len(aggregated_data)
          IN  IF ShouldMerge(aggregated_data, time_aggregation, ParsedTime(idx))
              THEN /\ Len(aggregated_data') = n
                   /\ \A k \in 1..(n - 1) : aggregated_data'[k] = aggregated_data[k]
                   /\ aggregated_data'[n].station = aggregated_data[n].station
                   /\ aggregated_data'[n].utc_datetime = aggregated_data[n].utc_datetime
                   /\ aggregated_data'[n].datetime = aggregated_data[n].datetime
                   /\ DOMAIN aggregated_data'[n] = DOMAIN aggregated_data[n]
              ELSE /\ Len(aggregated_data') = n + 1
                   /\ \A k \in 1..n : aggregated_data'[k] = aggregated_data[k] ]_vars

C9_Witness ==
    /\ pc = "loop"
    /\ Len(aggregated_data) = 2
    /\ Len(merged[2]) = 2
    /\ aggregated_data[2].temperature # data[merged[2][1]].temp

\* C10: with Hourly, Daily or Monthly two consecutive output records differ in
\* the granularity's component, every processed observation belongs to exactly
\* one bucket, and the output length is the number of component changes
\* between consecutive bucket openers plus one (zero for an empty input).
C10_BucketBoundaries ==
    Granular =>
        LET n == Len(aggregated_data)
            comp(k) == Component(time_aggregation, aggregated_data[k].utc_datetime)
        IN  /\ \A k \in 1..(n - 1) : comp(k) # comp(k + 1)
            /\ Flatten(merged) = [i \in 1..(idx - 1) |-> i]
            /\ Len(merged) = n
            /\ (pc = "loop" /\ idx > 1) =>
                  n = 1 + Cardinality({k \in 1..(n - 1) : comp(k) # comp(k + 1)})
            /\ (pc = "returned" /\ ~InvalidArgs /\ ~Failed) =>
                  /\ idx = Len(data) + 1 \/ (idx = 0 /\ data = <<>>)
                  /\ result.dataset = aggregated_data
                  /\ Len(data) = 0 => n = 0

C10_Witness ==
    /\ pc = "returned"
    /\ time_aggregation = "Daily"
    /\ Len(result.dataset) = 2
    /\ Len(data) = 3
    /\ result.dataset[1].utc_datetime.month # result.dataset[2].utc_datetime.month

====
